---- MODULE Spec2Model ----
(***************************************************************************)
(* Model of src/src/utils/loss.py: the loss Cells CrossEntropyLoss,        *)
(* MarginRankingLoss, OriTripletLoss, TripletLoss_WRT and the helpers      *)
(* pdist_ms, addmm and softmax_weights.                                    *)
(*                                                                         *)
(* Numbers.  The code computes on floats; the model computes exactly, on   *)
(* integers and on fractions <<numerator, denominator>> in lowest terms.   *)
(*  - Logits are integer multiples of ln 2, so that softmax is a ratio of  *)
(*    powers of two; the model draws the logit rows whose softmax          *)
(*    denominator is itself a power of two, which makes log_softmax an     *)
(*    integer multiple of ln 2 too.  Log-probabilities and cross-entropy   *)
(*    losses are therefore in units of ln 2.                               *)
(*  - Embedding coordinates are integer multiples of 1e-6.  Squared        *)
(*    distances are then integer multiples of 1e-12 (the clipping floor of *)
(*    the code is 1 such unit) and distances, margins and triplet losses   *)
(*    are multiples of 1e-6.  The model draws the feature matrices whose   *)
(*    pairwise squared distances are perfect squares, on which Sqrt is     *)
(*    exact.  Float rounding is not modelled.                              *)
(*                                                                         *)
(* State.  self holds the fields of the Cell constructed last, args the    *)
(* arguments of the last call, locals its local tensors and ret its        *)
(* result.  construct changes no field of its Cell, so each specification  *)
(* makes one call per constructed Cell (Idle); the module-level functions  *)
(* are called while no Cell is constructed.                                *)
(***************************************************************************)
EXTENDS Integers, Sequences, FiniteSets, TLC

VARIABLES self, args, locals, ret

vars == <<self, args, locals, ret>>

(***************************************************************************)
(* Exact arithmetic standing for the float arithmetic of the code.         *)
(***************************************************************************)
Abs(x) == IF x < 0 THEN -x ELSE x

RECURSIVE GCD(_, _)
GCD(a, b) == IF b = 0 THEN a ELSE GCD(b, a % b)

Frac(n, d) ==
    LET s == IF d < 0 THEN -1 ELSE 1
        g == GCD(Abs(n), Abs(d))
    IN  <<(s * n) \div g, (s * d) \div g>>

Num(n) == <<n, 1>>

RAdd(x, y) == Frac(x[1] * y[2] + y[1] * x[2], x[2] * y[2])

RSub(x, y) == Frac(x[1] * y[2] - y[1] * x[2], x[2] * y[2])

RMul(x, y) == Frac(x[1] * y[1], x[2] * y[2])

RDiv(x, y) == Frac(x[1] * y[2], x[2] * y[1])

RNeg(x) == <<-x[1], x[2]>>

RLess(x, y) == x[1] * y[2] < y[1] * x[2]

RECURSIVE RSum(_)
RSum(s) == IF s = <<>> THEN Num(0) ELSE RAdd(s[1], RSum(Tail(s)))

RECURSIVE ISum(_)
ISum(s) == IF s = <<>> THEN 0 ELSE s[1] + ISum(Tail(s))

RECURSIVE Pow2(_)
Pow2(n) == IF n = 0 THEN 1 ELSE 2 * Pow2(n - 1)

IsPow2(n) == \E e \in 0..n : Pow2(e) = n

Log2(n) == CHOOSE e \in 0..n : Pow2(e) = n

Rows(m) == Len(m)

Cols(m) == Len(m[1])

Transpose(m) == [j \in 1..Cols(m) |-> [i \in 1..Rows(m) |-> m[i][j]]]

NoObj == [cls |-> "none"]

NoCall == [fn |-> "none"]

NoRet == <<"none">>

\* no call has been made since the last construction (the Cells hold no state
\* that construct changes, so one call per constructed Cell reaches every state)
Idle == args.fn \in {"none", "__init__"}

(***************************************************************************)
(* class CrossEntropyLoss                                                   *)
(***************************************************************************)
MaxBatch == 2

MaxDepth == 3

MaxNumClasses == 6

LogitValues == 0..1

Epsilons == {<<0, 1>>, <<1, 10>>, <<1, 2>>}

\* nn.LogSoftmax(axis=1) on one row of logits a[k] * ln 2:
\* a[k] - log2(sum_j 2^a[j]), in units of ln 2.
LogSoftmaxRow(row) ==
    LET z == ISum([k \in 1..Len(row) |-> Pow2(row[k])])
    IN  [k \in 1..Len(row) |-> row[k] - Log2(z)]

LogSoftmax(inputs) == [i \in 1..Rows(inputs) |-> LogSoftmaxRow(inputs[i])]

\* nn.OneHot(depth, axis=-1) with the default on_value 1 and off_value 0;
\* labels are 0-based.
OneHot(depth, targets) ==
    [i \in 1..Len(targets) |->
        [k \in 1..depth |-> IF targets[i] = k - 1 THEN 1 ELSE 0]]

\* (1 - self.eps) * targets + self.eps / self.num_classes
SmoothTargets(eps, num_classes, onehot) ==
    [i \in 1..Rows(onehot) |->
        [k \in 1..Cols(onehot) |->
            RAdd(RMul(RSub(Num(1), eps), Num(onehot[i][k])),
                 RDiv(eps, Num(num_classes)))]]

\* (-targets * log_probs).mean(0).sum()
MeanSum(targets, log_probs) ==
    LET B == Rows(targets)
        prod == [i \in 1..B |-> [k \in 1..Cols(targets) |->
                    RMul(RNeg(targets[i][k]), Num(log_probs[i][k]))]]
        mean0 == [k \in 1..Cols(targets) |->
                    RDiv(RSum([i \in 1..B |-> prod[i][k]]), Num(B))]
    IN  RSum(mean0)

LogitRows(K) ==
    {r \in [1..K -> LogitValues] : IsPow2(ISum([k \in 1..K |-> Pow2(r[k])]))}

CEInputs ==
    UNION {{<<x, t>> : x \in [1..B -> LogitRows(K)], t \in [1..B -> 0..(K - 1)]} :
              B \in 1..MaxBatch, K \in 1..MaxDepth}

\* faulty variant of EffectiveEps: label_smooth is ignored
EffectiveEps_FlagIgnored(eps, label_smooth) == eps

\* self.eps = eps if label_smooth else 0
EffectiveEps(eps, label_smooth) == IF label_smooth THEN eps ELSE Num(0)

CrossEntropyLoss_init(num_classes, eps, label_smooth) ==
    /\ self' = [cls |-> "CrossEntropyLoss",
                num_classes |-> num_classes,
                eps |-> EffectiveEps(eps, label_smooth)]
    /\ args' = [fn |-> "__init__", num_classes |-> num_classes, eps |-> eps,
                label_smooth |-> label_smooth]
    /\ locals' = <<>>
    /\ ret' = NoRet

CrossEntropyLoss_construct(inputs, targets) ==
    /\ self.cls = "CrossEntropyLoss"
    /\ Idle
    /\ LET log_probs == LogSoftmax(inputs)
           depth == Cols(log_probs)
           onehot == OneHot(depth, targets)
           smoothed == SmoothTargets(self.eps, self.num_classes, onehot)
       IN  /\ locals' = [log_probs |-> log_probs, depth |-> depth,
                         targets |-> smoothed]
           /\ ret' = MeanSum(smoothed, log_probs)
    /\ args' = [fn |-> "construct", inputs |-> inputs, targets |-> targets]
    /\ UNCHANGED self

Init ==
    /\ self = NoObj
    /\ args = NoCall
    /\ locals = <<>>
    /\ ret = NoRet

NextCE ==
    \/ \E n \in 1..MaxNumClasses, e \in Epsilons, ls \in BOOLEAN :
           CrossEntropyLoss_init(n, e, ls)
    \/ Idle /\ \E c \in CEInputs : CrossEntropyLoss_construct(c[1], c[2])

SpecCE == Init /\ [][NextCE]_vars

(***************************************************************************)
(* Claims about CrossEntropyLoss (checked under SpecCE).                   *)
(***************************************************************************)
CEDone == self.cls = "CrossEntropyLoss" /\ args.fn = "construct"

\* -(1/B) * sum_i sum_k t[i][k] * L[i][k]
CERef(t, L) ==
    RNeg(RDiv(RSum([i \in 1..Rows(L) |->
                      RSum([k \in 1..Cols(L) |-> RMul(t[i][k], Num(L[i][k]))])]),
              Num(Rows(L))))

\* (1 - eps) * onehot(label) + eps / K at class index k (1-based)
CETargetRef(eps, K, label, k) ==
    RAdd(RMul(RSub(Num(1), eps), Num(IF label = k - 1 THEN 1 ELSE 0)),
         RDiv(eps, Num(K)))

\* C1: after construct, the target of sample i is (1-eps)*onehot(label_i) + eps/K
\* in each of the K classes, K being the number of columns of the logit matrix,
\* the result is -(1/B) sum_i sum_k target[i][k]*log_softmax(logits)[i][k], and
\* every target row sums to 1.
C1_TargetOverColumns ==
    CEDone =>
        LET K == Cols(args.inputs)
            B == Rows(args.inputs)
            L == LogSoftmax(args.inputs)
            t == [i \in 1..B |-> [k \in 1..K |->
                     CETargetRef(self.eps, K, args.targets[i], k)]]
        IN  /\ locals.targets = t
            /\ ret = CERef(t, L)
            /\ \A i \in 1..B : RSum(locals.targets[i]) = Num(1)

\* -(1/B) * sum_i L[i][label_i]
StdCrossEntropy(L, labels) ==
    RNeg(RDiv(Num(ISum([i \in 1..Rows(L) |-> L[i][labels[i] + 1]])),
              Num(Rows(L))))

CorrectlyClassified(L, labels) ==
    /\ Cols(L) >= 2
    /\ \A i \in 1..Rows(L) : \A k \in 1..Cols(L) :
           k # labels[i] + 1 => L[i][k] < L[i][labels[i] + 1]

\* C3: with eps > 0, on a batch in which every sample is correctly classified,
\* the result is strictly larger than that of the loss with eps = 0 on the
\* same logits and labels.
C3_SmoothedIsLarger ==
    (CEDone /\ RLess(Num(0), self.eps)
        /\ CorrectlyClassified(locals.log_probs, args.targets))
      => RLess(MeanSum(SmoothTargets(Num(0), self.num_classes,
                                     OneHot(locals.depth, args.targets)),
                       locals.log_probs),
               ret)

(***************************************************************************)
(* class MarginRankingLoss                                                  *)
(***************************************************************************)
MaxLen == 2

MRValues == 0..2

MRMargins == {-1, 0, 1}

\* faulty variant of Hinge: the mask is dropped
Hinge_NoMask(temp3) == temp3

\* temp3 * temp3_mask, temp3_mask = (temp3 >= 0), one element
Hinge(temp3) == temp3 * (IF temp3 >= 0 THEN 1 ELSE 0)

\* faulty variant of ReduceMean: the reduction is left out
ReduceMean_Omitted(v) == [i \in 1..Len(v) |-> Num(v[i])]

\* P.ReduceMean(keep_dims=True) of a vector: a tensor of one element
ReduceMean(v) == <<Frac(ISum(v), Len(v))>>

\* temp3 of MarginRankingLoss.construct
RankingTemp3(margin, input1, input2, y) ==
    [i \in 1..Len(input1) |->
        LET temp1 == -(input1[i] - input2[i])
            temp2 == temp1 * y[i]
        IN  temp2 + margin]

RankingHinge(margin, input1, input2, y) ==
    LET temp3 == RankingTemp3(margin, input1, input2, y)
    IN  [i \in 1..Len(temp3) |-> Hinge(temp3[i])]

\* MarginRankingLoss.construct
MarginRanking(margin, input1, input2, y) ==
    ReduceMean(RankingHinge(margin, input1, input2, y))

MRInputs ==
    UNION {{<<a, b, y>> : a \in [1..n -> MRValues], b \in [1..n -> MRValues],
                          y \in [1..n -> {1, -1}]} : n \in 1..MaxLen}

MarginRankingLoss_init(margin) ==
    /\ self' = [cls |-> "MarginRankingLoss", margin |-> margin]
    /\ args' = [fn |-> "__init__", margin |-> margin]
    /\ locals' = <<>>
    /\ ret' = NoRet

MarginRankingLoss_construct(input1, input2, y) ==
    /\ self.cls = "MarginRankingLoss"
    /\ Idle
    /\ locals' = [temp3 |-> RankingTemp3(self.margin, input1, input2, y)]
    /\ ret' = MarginRanking(self.margin, input1, input2, y)
    /\ args' = [fn |-> "construct", input1 |-> input1, input2 |-> input2, y |-> y]
    /\ UNCHANGED self

NextMR ==
    \/ \E m \in MRMargins : MarginRankingLoss_init(m)
    \/ Idle /\ \E c \in MRInputs : MarginRankingLoss_construct(c[1], c[2], c[3])

SpecMR == Init /\ [][NextMR]_vars

MRDone == self.cls = "MarginRankingLoss" /\ args.fn = "construct"

IMax(a, b) == IF a >= b THEN a ELSE b

\* -(input1 - input2) * y + margin of sample i
MRValue(i) == -(args.input1[i] - args.input2[i]) * args.y[i] + self.margin

\* C4: the result is the mean over samples of max(0, -(input1-input2)*y + margin);
\* it is never negative, and the samples whose value is negative add nothing
\* to the sum.
C4_MeanOfHinge ==
    MRDone =>
        LET n == Len(args.input1)
        IN  /\ ret = <<Frac(ISum([i \in 1..n |-> IMax(0, MRValue(i))]), n)>>
            /\ ~RLess(ret[1], Num(0))
            /\ ret = <<Frac(ISum([i \in 1..n |->
                          IF MRValue(i) < 0 THEN 0 ELSE MRValue(i)]), n)>>

C4_Witness ==
    /\ MRDone
    /\ \E i, j \in 1..Len(args.input1) : MRValue(i) < 0 /\ MRValue(j) > 0
    /\ \E i, j \in 1..Len(args.y) : args.y[i] = 1 /\ args.y[j] = -1
    /\ RLess(Num(0), ret[1])

(***************************************************************************)
(* Tensor helpers of the triplet losses.  Squared distances are in units   *)
(* of 1e-12, distances and margins in units of 1e-6.                       *)
(***************************************************************************)
IMin(a, b) == IF a <= b THEN a ELSE b

RECURSIVE Pow10(_)
Pow10(n) == IF n = 0 THEN 1 ELSE 10 * Pow10(n - 1)

RECURSIVE SeqMax(_)
SeqMax(s) == IF Len(s) = 1 THEN s[1] ELSE IMax(s[1], SeqMax(Tail(s)))

RECURSIVE SeqMin(_)
SeqMin(s) == IF Len(s) = 1 THEN s[1] ELSE IMin(s[1], SeqMin(Tail(s)))

\* P.matmul
MatMul(a, b) ==
    [i \in 1..Rows(a) |-> [j \in 1..Cols(b) |->
        ISum([k \in 1..Cols(a) |-> a[i][k] * b[k][j]])]]

\* pow(x, 2) summed over axis 1 with keep_dims: the squared norm of each row
SquaredNorms(x) ==
    [i \in 1..Rows(x) |-> ISum([k \in 1..Cols(x) |-> x[i][k] * x[i][k]])]

\* clip_value_min = 1e-12 is 1 unit; clip_value_max is 1e8 = 10^20 units in
\* OriTripletLoss and 1e7 = 10^19 units in pdist_ms.
ClipValueMin == 1

ClipValueMaxExpOri == 20

ClipValueMaxExpPdist == 19

\* min(x, 10^e): a power of ten above 10^9 is above every number of the model
MinPow10(x, e) == IF e <= 9 /\ Pow10(e) < x THEN Pow10(e) ELSE x

\* faulty variant of ClipByValue: clip_value_min is not applied
ClipByValue_NoFloor(x, lo, hiExp) == MinPow10(x, hiExp)

\* P.composite.clip_by_value(x, lo, 10^hiExp) = max(min(x, hi), lo)
ClipByValue(x, lo, hiExp) == IMax(MinPow10(x, hiExp), lo)

\* P.Sqrt: the integer r with r^2 <= x < (r+1)^2, which is the square root on
\* the perfect squares the model draws
Sqrt(x) == CHOOSE r \in 0..IMax(x, 0) : r * r <= IMax(x, 0) /\ IMax(x, 0) < (r + 1) * (r + 1)

\* corners of a 3 x 4 rectangle: every pairwise distance is 0, 3, 4 or 5
Points == {<<0, 0>>, <<3, 0>>, <<0, 4>>, <<3, 4>>}

Labels == 0..1

(***************************************************************************)
(* class OriTripletLoss                                                     *)
(***************************************************************************)
MaxTripletBatch == 3

TripletMarginDefault == 300000

TripletMargins == {0, 2, TripletMarginDefault}

\* faulty variant of OriSquaredDist: the expanded norms are added to
\* themselves instead of to their transpose
OriSquaredDist_NoTranspose(inputs) ==
    LET sq == SquaredNorms(inputs)
        B == Rows(inputs)
        temp1 == MatMul(inputs, Transpose(inputs))
    IN  [i \in 1..B |-> [j \in 1..B |-> sq[i] + sq[i] + (-2) * temp1[i][j]]]

\* lines 136-143: expand(sum(x^2)) + its transpose - 2 * x @ x^T
OriSquaredDist(inputs) ==
    LET sq == SquaredNorms(inputs)
        B == Rows(inputs)
        expanded == [i \in 1..B |-> [j \in 1..B |-> sq[i]]]
        transposed == Transpose(expanded)
        temp1 == MatMul(inputs, Transpose(inputs))
    IN  [i \in 1..B |-> [j \in 1..B |->
            (expanded[i][j] + transposed[i][j]) + (-2) * temp1[i][j]]]

\* expand(targets) compared with its transpose, cast to int8
MaskPos(targets) ==
    LET B == Len(targets)
        expanded == [i \in 1..B |-> targets]
        transposed == Transpose(expanded)
    IN  [i \in 1..B |-> [j \in 1..B |->
            IF expanded[i][j] = transposed[i][j] THEN 1 ELSE 0]]

MaskNeg(targets) ==
    LET B == Len(targets)
        expanded == [i \in 1..B |-> targets]
        transposed == Transpose(expanded)
    IN  [i \in 1..B |-> [j \in 1..B |->
            IF expanded[i][j] # transposed[i][j] THEN 1 ELSE 0]]

\* max(dist * mask_pos, 1).squeeze()
HardestPositive(dist, mask_pos) ==
    [i \in 1..Rows(dist) |->
        SeqMax([j \in 1..Cols(dist) |-> dist[i][j] * mask_pos[i][j]])]

\* faulty variant of HardestNegative: the positives are not lifted by the
\* largest negative distance before the minimum is taken
HardestNegative_RowMin(dist, mask_pos, mask_neg) ==
    [i \in 1..Rows(dist) |-> SeqMin(dist[i])]

\* min(max(dist * mask_neg, 1) * mask_pos + dist, 1).squeeze()
HardestNegative(dist, mask_pos, mask_neg) ==
    [i \in 1..Rows(dist) |->
        LET maxneg == SeqMax([j \in 1..Cols(dist) |-> dist[i][j] * mask_neg[i][j]])
        IN  SeqMin([j \in 1..Cols(dist) |-> maxneg * mask_pos[i][j] + dist[i][j]])]

\* OriTripletLoss.construct: its tensors and its result
OriTriplet(margin, inputs, targets) ==
    LET B == Rows(inputs)
        raw == OriSquaredDist(inputs)
        clipped == [i \in 1..B |-> [j \in 1..B |->
                       ClipByValue(raw[i][j], ClipValueMin, ClipValueMaxExpOri)]]
        dist == [i \in 1..B |-> [j \in 1..B |-> Sqrt(clipped[i][j])]]
        mask_pos == MaskPos(targets)
        mask_neg == MaskNeg(targets)
        dist_ap == HardestPositive(dist, mask_pos)
        dist_an == HardestNegative(dist, mask_pos, mask_neg)
        y == [i \in 1..B |-> 1]
        loss == MarginRanking(margin, dist_an, dist_ap, y)
    IN  [clipped |-> clipped, dist |-> dist, mask_pos |-> mask_pos,
         mask_neg |-> mask_neg, dist_ap |-> dist_ap, dist_an |-> dist_an,
         hinge |-> RankingHinge(margin, dist_an, dist_ap, y),
         loss |-> loss[1]]

TripletInputs ==
    UNION {{<<x, t>> : x \in [1..B -> Points], t \in [1..B -> Labels]} :
              B \in 1..MaxTripletBatch}

OriTripletLoss_init(margin, batch_size) ==
    /\ self' = [cls |-> "OriTripletLoss", margin |-> margin,
                batch_size |-> batch_size]
    /\ args' = [fn |-> "__init__", margin |-> margin, batch_size |-> batch_size]
    /\ locals' = <<>>
    /\ ret' = NoRet

\* self.expand = BroadcastTo((batch_size, batch_size)) fixes the batch the
\* Cell is built for: the call is modelled for batches of batch_size rows.
OriTripletLoss_construct(inputs, targets) ==
    /\ self.cls = "OriTripletLoss"
    /\ Idle
    /\ Rows(inputs) = self.batch_size
    /\ LET r == OriTriplet(self.margin, inputs, targets)
       IN  /\ locals' = [clipped |-> r.clipped, dist |-> r.dist,
                         mask_pos |-> r.mask_pos, mask_neg |-> r.mask_neg,
                         dist_ap |-> r.dist_ap, dist_an |-> r.dist_an,
                         hinge |-> r.hinge]
           /\ ret' = r.loss
    /\ args' = [fn |-> "construct", inputs |-> inputs, targets |-> targets]
    /\ UNCHANGED self

NextOri ==
    \/ \E m \in TripletMargins, b \in 1..MaxTripletBatch : OriTripletLoss_init(m, b)
    \/ Idle /\ \E c \in TripletInputs : OriTripletLoss_construct(c[1], c[2])

SpecOri == Init /\ [][NextOri]_vars

(***************************************************************************)
(* Claims about OriTripletLoss (checked under SpecOri).                    *)
(***************************************************************************)
OriDone == self.cls = "OriTripletLoss" /\ args.fn = "construct"

SetMax(S) == CHOOSE x \in S : \A y \in S : y <= x

SetMin(S) == CHOOSE x \in S : \A y \in S : x <= y

Positives(i) == {j \in 1..Len(args.targets) : args.targets[j] = args.targets[i]}

Negatives(i) == {j \in 1..Len(args.targets) : args.targets[j] # args.targets[i]}

\* C5: dist_ap[i] is the largest distance from anchor i to a sample of its
\* label; for an anchor with a sample of another label, dist_an[i] is the
\* smallest distance to a sample of another label; the loss is the mean over
\* anchors of max(0, dist_ap[i] - dist_an[i] + margin).
C5_HardMining ==
    OriDone =>
        LET B == Len(args.targets)
        IN  /\ \A i \in 1..B :
                  locals.dist_ap[i] = SetMax({locals.dist[i][j] : j \in Positives(i)})
            /\ \A i \in 1..B :
                  Negatives(i) # {} =>
                      locals.dist_an[i] =
                          SetMin({locals.dist[i][j] : j \in Negatives(i)})
            /\ ret = Frac(ISum([i \in 1..B |->
                              IMax(0, locals.dist_ap[i] - locals.dist_an[i]
                                          + self.margin)]), B)

C5_Witness ==
    /\ OriDone
    /\ \E i \in 1..Len(args.targets) :
          /\ Cardinality(Positives(i)) >= 2
          /\ Negatives(i) # {}
          /\ locals.dist_ap[i] > locals.dist[i][i]
          /\ locals.dist_an[i] > locals.dist[i][i]
          /\ locals.dist_an[i] < SeqMax(locals.dist[i])
    /\ \E i \in 1..Len(args.targets) :
          /\ Cardinality(Negatives(i)) >= 2
          /\ \E j, k \in Negatives(i) : locals.dist[i][j] < locals.dist[i][k]
    /\ RLess(Num(0), ret)

BatchPermutations(n) == {p \in [1..n -> 1..n] : \A i, j \in 1..n : p[i] = p[j] => i = j}

\* the permutations of the batch positions that move a sample only to a
\* position carrying its label
SameLabelPermutations(targets) ==
    {p \in BatchPermutations(Len(targets)) :
        \A i \in 1..Len(targets) : targets[p[i]] = targets[i]}

\* C7: the loss of the batch with its feature rows permuted among positions of
\* equal label, the labels unchanged, is the loss of the batch.
C7_SameLabelPermutation ==
    OriDone =>
        \A p \in SameLabelPermutations(args.targets) :
            OriTriplet(self.margin,
                       [i \in 1..Len(args.targets) |-> args.inputs[p[i]]],
                       args.targets).loss = ret

C7_Witness ==
    /\ OriDone
    /\ Len(args.targets) = 3
    /\ \E p \in SameLabelPermutations(args.targets) :
          /\ [i \in 1..3 |-> args.inputs[p[i]]] # args.inputs
          /\ \E i \in 1..3 : Negatives(i) # {} /\ p[i] # i
    /\ locals.hinge[1] # locals.hinge[2]
    /\ RLess(Num(0), ret)

\* sqrt(1e-12), in units of 1e-6
SqrtFloor == Sqrt(ClipValueMin)

\* C10: an anchor without a sample of another label gets as dist_an the
\* minimum of its whole row of dist, which is its clipped self-distance
\* sqrt(1e-12); its hinge term is max(0, dist_ap - sqrt(1e-12) + margin),
\* positive when margin > 0, and it is one of the B terms of the mean.
C10_NoNegativeAnchor ==
    OriDone =>
        /\ \A i \in 1..Len(args.targets) :
              Negatives(i) = {} =>
                  /\ locals.dist_an[i] = SeqMin(locals.dist[i])
                  /\ locals.dist_an[i] = locals.dist[i][i]
                  /\ locals.dist_an[i] = SqrtFloor
                  /\ locals.hinge[i] =
                         IMax(0, locals.dist_ap[i] - SqrtFloor + self.margin)
                  /\ self.margin > 0 => locals.hinge[i] > 0
        /\ Len(locals.hinge) = Len(args.targets)
        /\ ret = Frac(ISum(locals.hinge), Len(args.targets))

C10_Witness ==
    /\ OriDone
    /\ Len(args.targets) >= 2
    /\ \A i \in 1..Len(args.targets) : Negatives(i) = {}
    /\ \E i \in 1..Len(args.targets) : locals.dist_ap[i] > SqrtFloor
    /\ self.margin > 0
    /\ RLess(Num(0), ret)

(***************************************************************************)
(* pdist_ms, addmm, softmax_weights and class TripletLoss_WRT               *)
(***************************************************************************)
MaxEmbRows == 2

AddmmDims == 1..2

AddmmValues == 0..1

AddmmScalars == {1, -2}

SoftmaxRows == 1..2

SoftmaxCols == 2..2

SoftmaxValues == -2..2

\* faulty variant of addmm: a and b are exchanged
addmm_ScalarsSwapped(dist, a, b, m1, m2) ==
    LET y2 == MatMul(m1, m2)
    IN  [i \in 1..Rows(dist) |-> [j \in 1..Cols(dist) |->
            b * dist[i][j] + a * y2[i][j]]]

\* addmm(dist, a, b, m1, m2): y1 = a * dist, y2 = b * P.matmul(m1, m2), y1 + y2
addmm(dist, a, b, m1, m2) ==
    LET y1 == [i \in 1..Rows(dist) |-> [j \in 1..Cols(dist) |-> a * dist[i][j]]]
        y2 == MatMul(m1, m2)
        y2b == [i \in 1..Rows(y2) |-> [j \in 1..Cols(y2) |-> b * y2[i][j]]]
    IN  [i \in 1..Rows(dist) |-> [j \in 1..Cols(dist) |-> y1[i][j] + y2b[i][j]]]

\* pdist_ms, up to the clipping: dist_mtx after addmm
PdistSquared(emb1, emb2) ==
    LET m == Rows(emb1)
        n == Rows(emb2)
        sq1 == SquaredNorms(emb1)
        sq2 == SquaredNorms(emb2)
        emb1_pow == [i \in 1..m |-> [j \in 1..n |-> sq1[i]]]
        emb2_pow == Transpose([j \in 1..n |-> [i \in 1..m |-> sq2[j]]])
        dist_mtx == [i \in 1..m |-> [j \in 1..n |-> emb1_pow[i][j] + emb2_pow[i][j]]]
    IN  addmm(dist_mtx, 1, -2, emb1, Transpose(emb2))

\* the argument of sqrt in pdist_ms
PdistClipped(emb1, emb2) ==
    LET raw == PdistSquared(emb1, emb2)
    IN  [i \in 1..Rows(raw) |-> [j \in 1..Cols(raw) |->
            ClipByValue(raw[i][j], ClipValueMin, ClipValueMaxExpPdist)]]

pdist_ms(emb1, emb2) ==
    LET clipped == PdistClipped(emb1, emb2)
    IN  [i \in 1..Rows(clipped) |-> [j \in 1..Cols(clipped) |-> Sqrt(clipped[i][j])]]

\* exp(x * ln 2)
Exp(x) == IF x >= 0 THEN Num(Pow2(x)) ELSE Frac(1, Pow2(-x))

\* max_v of softmax_weights: ArgMaxWithValue(axis=1, keep_dims=True) of dist * mask
SoftmaxMaxV(dist, mask) ==
    [i \in 1..Rows(dist) |->
        SeqMax([j \in 1..Cols(dist) |-> dist[i][j] * mask[i][j]])]

\* diff of softmax_weights
SoftmaxDiff(dist, mask) ==
    LET max_v == SoftmaxMaxV(dist, mask)
    IN  [i \in 1..Rows(dist) |-> [j \in 1..Cols(dist) |-> dist[i][j] - max_v[i]]]

\* softmax_weights(dist, mask), dist in multiples of ln 2
softmax_weights(dist, mask) ==
    LET diff == SoftmaxDiff(dist, mask)
        e == [i \in 1..Rows(dist) |-> [j \in 1..Cols(dist) |->
                 RMul(Exp(diff[i][j]), Num(mask[i][j]))]]
        tmp_z == [i \in 1..Rows(dist) |-> RAdd(RSum(e[i]), Frac(1, 1000000))]
    IN  [i \in 1..Rows(dist) |-> [j \in 1..Cols(dist) |-> RDiv(e[i][j], tmp_z[i])]]

Matrices(r, c, S) == [1..r -> [1..c -> S]]

PdistInputs ==
    UNION {{<<e1, e2>> : e1 \in [1..m -> Points], e2 \in [1..n -> Points]} :
              m \in 1..MaxEmbRows, n \in 1..MaxEmbRows}

AddmmInputs ==
    UNION {{<<dist, m1, m2>> : dist \in Matrices(m, n, AddmmValues),
                               m1 \in Matrices(m, d, AddmmValues),
                               m2 \in Matrices(d, n, AddmmValues)} :
              m \in AddmmDims, d \in AddmmDims, n \in AddmmDims}

SoftmaxInputs ==
    UNION {{<<dist, mask>> : dist \in Matrices(r, c, SoftmaxValues),
                             mask \in Matrices(r, c, 0..1)} :
              r \in SoftmaxRows, c \in SoftmaxCols}

\* a call of a module-level function from outside the Cells
Call_pdist_ms(emb1, emb2) ==
    /\ self.cls = "none"
    /\ Idle
    /\ locals' = [clipped |-> PdistClipped(emb1, emb2)]
    /\ ret' = pdist_ms(emb1, emb2)
    /\ args' = [fn |-> "pdist_ms", emb1 |-> emb1, emb2 |-> emb2]
    /\ UNCHANGED self

Call_addmm(dist, a, b, m1, m2) ==
    /\ self.cls = "none"
    /\ Idle
    /\ locals' = <<>>
    /\ ret' = addmm(dist, a, b, m1, m2)
    /\ args' = [fn |-> "addmm", dist |-> dist, a |-> a, b |-> b, m1 |-> m1, m2 |-> m2]
    /\ UNCHANGED self

Call_softmax_weights(dist, mask) ==
    /\ self.cls = "none"
    /\ Idle
    /\ locals' = [max_v |-> SoftmaxMaxV(dist, mask), diff |-> SoftmaxDiff(dist, mask)]
    /\ ret' = softmax_weights(dist, mask)
    /\ args' = [fn |-> "softmax_weights", dist |-> dist, mask |-> mask]
    /\ UNCHANGED self

TripletLoss_WRT_init ==
    /\ self' = [cls |-> "TripletLoss_WRT"]
    /\ args' = [fn |-> "__init__"]
    /\ locals' = <<>>
    /\ ret' = NoRet

\* TripletLoss_WRT.construct.  The distances are multiples of 1e-6, whose
\* exponentials are no fractions: the tensors are computed up to the
\* exponents diff of the two softmax_weights calls, and the scalar that
\* SoftMarginLoss makes of them is left as the token <<"loss">>.
TripletLoss_WRT_construct(inputs, targets) ==
    /\ self.cls = "TripletLoss_WRT"
    /\ Idle
    /\ \E clipped \in {PdistClipped(inputs, inputs)} :
       \E dist_mat \in {pdist_ms(inputs, inputs)} :
       \E is_pos \in {MaskPos(targets)}, is_neg \in {MaskNeg(targets)} :
       \E dist_ap \in {[i \in 1..Rows(dist_mat) |-> [j \in 1..Rows(dist_mat) |->
                           dist_mat[i][j] * is_pos[i][j]]]} :
       \E dist_an \in {[i \in 1..Rows(dist_mat) |-> [j \in 1..Rows(dist_mat) |->
                           dist_mat[i][j] * is_neg[i][j]]]} :
       \E neg_an \in {[i \in 1..Rows(dist_an) |-> [j \in 1..Rows(dist_an) |->
                           -dist_an[i][j]]]} :
           locals' = [clipped |-> clipped,
                      dist_mat |-> dist_mat, is_pos |-> is_pos, is_neg |-> is_neg,
                      dist_ap |-> dist_ap, dist_an |-> dist_an,
                      ap |-> [dist |-> dist_ap, mask |-> is_pos,
                              max_v |-> SoftmaxMaxV(dist_ap, is_pos),
                              diff |-> SoftmaxDiff(dist_ap, is_pos)],
                      an |-> [dist |-> neg_an, mask |-> is_neg,
                              max_v |-> SoftmaxMaxV(neg_an, is_neg),
                              diff |-> SoftmaxDiff(neg_an, is_neg)]]
    /\ ret' = <<"loss">>
    /\ args' = [fn |-> "construct", inputs |-> inputs, targets |-> targets]
    /\ UNCHANGED self

NextWRT ==
    \/ TripletLoss_WRT_init
    \/ Idle /\ \E c \in TripletInputs : TripletLoss_WRT_construct(c[1], c[2])

SpecWRT == Init /\ [][NextWRT]_vars

NextFn ==
    \/ Idle /\ \E c \in PdistInputs : Call_pdist_ms(c[1], c[2])
    \/ Idle /\ \E c \in AddmmInputs, a \in AddmmScalars, b \in AddmmScalars :
           Call_addmm(c[1], a, b, c[2], c[3])
    \/ Idle /\ \E c \in SoftmaxInputs : Call_softmax_weights(c[1], c[2])

SpecFn == Init /\ [][NextFn]_vars

NextDist ==
    \/ \E m \in TripletMargins, b \in 1..MaxTripletBatch : OriTripletLoss_init(m, b)
    \/ Idle /\ \E c \in TripletInputs : OriTripletLoss_construct(c[1], c[2])
    \/ TripletLoss_WRT_init
    \/ Idle /\ \E c \in TripletInputs : TripletLoss_WRT_construct(c[1], c[2])
    \/ Idle /\ \E c \in PdistInputs : Call_pdist_ms(c[1], c[2])

SpecDist == Init /\ [][NextDist]_vars

(***************************************************************************)
(* Claims about the distance matrix (SpecDist), softmax_weights (SpecWRT)  *)
(* and addmm / pdist_ms (SpecFn).                                          *)
(***************************************************************************)
WRTDone == self.cls = "TripletLoss_WRT" /\ args.fn = "construct"

PdistSelfDone == args.fn = "pdist_ms" /\ args.emb1 = args.emb2

\* d is the distance matrix of the rows of X against themselves and clipped
\* its entries before the square root: d is symmetric, without negative
\* entry, equal to sqrt(1e-12) on the diagonal and between identical rows,
\* and no entry of clipped is below 1e-12.
DistMatrixOK(X, clipped, d) ==
    LET n == Rows(X)
    IN  /\ Rows(d) = n /\ Cols(d) = n
        /\ \A i, j \in 1..n :
              /\ d[i][j] = d[j][i]
              /\ d[i][j] >= 0
              /\ clipped[i][j] >= ClipValueMin
              /\ X[i] = X[j] => d[i][j] = SqrtFloor
        /\ \A i \in 1..n : d[i][i] = SqrtFloor

\* C6: the distance matrix of a feature matrix against itself, from
\* pdist_ms(X, X) and inside OriTripletLoss.construct, is symmetric, has no
\* negative entry, has sqrt(1e-12) on its diagonal and between identical
\* rows, and the argument of the square root is never below 1e-12.
C6_DistMatrix ==
    /\ OriDone => DistMatrixOK(args.inputs, locals.clipped, locals.dist)
    /\ WRTDone => DistMatrixOK(args.inputs, locals.clipped, locals.dist_mat)
    /\ PdistSelfDone => DistMatrixOK(args.emb1, locals.clipped, ret)

C6_Witness ==
    /\ OriDone
    /\ Rows(args.inputs) = 3
    /\ args.inputs[1] = args.inputs[3]
    /\ args.inputs[1] # args.inputs[2]
    /\ locals.dist[1][2] > SqrtFloor
    /\ locals.dist[1][3] = SqrtFloor

\* In every row of mask with an entry 1, max_v is the largest dist of the
\* entries with mask 1, every exponent diff with mask 1 is <= 0 and one of
\* them is 0.
MaxShifted(dist, mask, max_v, diff) ==
    \A i \in 1..Rows(dist) :
        LET masked == {j \in 1..Cols(dist) : mask[i][j] = 1}
        IN  masked # {} =>
                /\ max_v[i] = SetMax({dist[i][j] : j \in masked})
                /\ \A j \in masked : diff[i][j] <= 0
                /\ \E j \in masked : diff[i][j] = 0

\* C8: softmax_weights subtracts from dist, in every row with a masked entry,
\* the maximum of dist over the masked entries, so that the masked exponents
\* are <= 0 and one of them is 0; so do both calls of TripletLoss_WRT.construct,
\* softmax_weights(dist_ap, is_pos) and softmax_weights(-dist_an, is_neg).
C8_MaxShiftedMaskedSoftmax ==
    /\ args.fn = "softmax_weights"
          => MaxShifted(args.dist, args.mask, locals.max_v, locals.diff)
    /\ WRTDone
          => /\ MaxShifted(locals.ap.dist, locals.ap.mask,
                           locals.ap.max_v, locals.ap.diff)
             /\ MaxShifted(locals.an.dist, locals.an.mask,
                           locals.an.max_v, locals.an.diff)

AddmmDone == args.fn = "addmm"

Dot(u, v) == ISum([k \in 1..Len(u) |-> u[k] * v[k]])

Column(m, j) == [k \in 1..Rows(m) |-> m[k][j]]

\* pdist_ms(emb1, emb2)[i][j] is the square root of the clipped value of
\* |emb1_i|^2 + |emb2_j|^2 - 2 * (emb1_i . emb2_j)
PdistEntries ==
    args.fn = "pdist_ms" =>
        /\ Rows(ret) = Rows(args.emb1)
        /\ \A i \in 1..Rows(args.emb1) :
              /\ Len(ret[i]) = Rows(args.emb2)
              /\ \A j \in 1..Rows(args.emb2) :
                    ret[i][j] =
                        Sqrt(ClipByValue(Dot(args.emb1[i], args.emb1[i])
                                           + Dot(args.emb2[j], args.emb2[j])
                                           - 2 * Dot(args.emb1[i], args.emb2[j]),
                                         ClipValueMin, ClipValueMaxExpPdist))

\* C9 as stated: addmm(dist, a, b, m1, m2) returns a*dist + b*(m1 @ m2^T), the
\* product of m1 with the transpose of m2 (wherever that product has the
\* shape of dist), and pdist_ms has the entries of PdistEntries.
C9_AddmmTransposesM2 ==
    /\ (AddmmDone /\ Cols(args.m1) = Cols(args.m2) /\ Rows(args.m2) = Cols(args.dist))
          => \A i \in 1..Rows(args.dist) : \A j \in 1..Cols(args.dist) :
                 ret[i][j] = args.a * args.dist[i][j]
                               + args.b * Dot(args.m1[i], args.m2[j])
    /\ PdistEntries

\* C9 amended: addmm(dist, a, b, m1, m2) returns a*dist + b*(m1 @ m2), the
\* product of m1 with m2 as given (pdist_ms passes the transpose of emb2),
\* and pdist_ms has the entries of PdistEntries.
C9_AddmmPlainProduct ==
    /\ AddmmDone
          => /\ Rows(ret) = Rows(args.dist)
             /\ \A i \in 1..Rows(args.dist) :
                   /\ Len(ret[i]) = Cols(args.dist)
                   /\ \A j \in 1..Cols(args.dist) :
                         ret[i][j] = args.a * args.dist[i][j]
                                       + args.b * Dot(args.m1[i], Column(args.m2, j))
    /\ PdistEntries

C9_Witness ==
    /\ AddmmDone
    /\ Rows(args.m2) = 2 /\ Cols(args.m2) = 2 /\ Rows(args.m1) = 2
    /\ args.m2[1][2] # args.m2[2][1]
    /\ MatMul(args.m1, args.m2) # MatMul(args.m1, Transpose(args.m2))
    /\ args.a = 1 /\ args.b = -2
    /\ \E i, j \in 1..2 : args.dist[i][j] # 0 /\ ret[i][j] < 0

====
